---- MODULE Spec2Model ----
(***************************************************************************)
(* EffinTrak Analytics dashboard (src/app.py).                             *)
(*                                                                         *)
(* The script is re-executed top to bottom for every session and every     *)
(* widget interaction.  One run is modelled as three steps, split where    *)
(* the script touches state shared by the whole process:                   *)
(*   NewSession / Interact  start of a run and lines 9-20 (ValidateUserId) *)
(*   GetData                lines  40-51  (memoized fetch, @st.cache_data) *)
(*   Render                 lines  57-202 (widgets, filter, export, views) *)
(* NewSession: a browser opens the URL.  Interact: the user changes one    *)
(* widget.  StoreInsert is the upstream application writing an expense     *)
(* document into the collection.                                           *)
(*                                                                         *)
(* Abstractions: a table is the set of its rows (documents carry a unique  *)
(* _id); amounts are integers; a timestamp is a number of ticks, with      *)
(* TicksPerDay ticks to a calendar day; hexadecimal digits are drawn from  *)
(* a four-letter alphabet.                                                 *)
(***************************************************************************)
EXTENDS Integers, Sequences, FiniteSets, TLC

VARIABLES
    store,       \* documents of the collection (backing store)
    data_cache,  \* @st.cache_data entries of get_data: set of [key, value]
    csv_cache,   \* @st.cache_data entries of convert_df: set of [key, value]
    query_log,   \* history: the collection.find calls issued, in order
    runs,        \* history: number of script runs started
    pc,          \* per session: position of the running script
    request,     \* per session: the request's query parameters
    user_id,     \* per session: module global user_id after line 17
    queried,     \* per session: this run has called collection.find
    df,          \* per session: module global df after line 51
    sel,         \* per session: widget state kept by the UI between runs
    page         \* per session: what this run has put on the page

vars == <<store, data_cache, csv_cache, query_log, runs, pc, request,
          user_id, queried, df, sel, page>>

(***************************************************************************)
(* Bounds                                                                  *)
(***************************************************************************)
MaxRuns == 3
MaxStore == 2
TicksPerDay == 2

Sessions == {"s1", "s2"}

\* sessions are named in the order in which they first arrive
Earlier(t, s) == t = "s1" /\ s = "s2"

(***************************************************************************)
(* Identifiers and requests                                                *)
(***************************************************************************)
HexDigits == {"a", "b", "A", "B"}

Lower(c) == CASE c = "A" -> "a" [] c = "B" -> "b" [] OTHER -> c

Rep(n, c) == [i \in 1..n |-> c]

UserA == Rep(24, "a")
UserB == Rep(24, "b")

ParamValues ==
    { <<>>,                                              \* user_id=
      [i \in 1..24 |-> IF i = 24 THEN "z" ELSE "a"],     \* not hexadecimal
      Rep(24, "A"),                                      \* UserA, in capitals
      UserB }

Requests ==
    {[present |-> FALSE, value |-> <<>>]}
        \cup {[present |-> TRUE, value |-> v] : v \in ParamValues}

NoRequest == [present |-> FALSE, value |-> <<>>]
NoId == <<>>

\* line 10: query_params.get("user_id", [None])
QueryParamsGet(q) ==
    IF q.present THEN [kind |-> "str", val |-> q.value]
                 ELSE [kind |-> "list", val |-> <<"None">>]

\* line 12: "not user_id" (an empty string or an empty list is falsy)
Falsy(x) == Len(x.val) = 0

ObjectIdValidAnyString(x) == x.kind = "str"

\* line 17: ObjectId(user_id) raises unless given 24 hexadecimal digits
ObjectIdValid(x) ==
    /\ x.kind = "str"
    /\ Len(x.val) = 24
    /\ \A i \in 1..Len(x.val) : x.val[i] \in HexDigits

\* line 17: the identifier's value (hexadecimal digits read case-blind)
ObjectId(x) == [i \in 1..Len(x.val) |-> Lower(x.val[i])]

(***************************************************************************)
(* Documents                                                               *)
(***************************************************************************)
Doc(id, u, day, tod, amt, cat, payee) ==
    [id |-> id, user |-> u, date |-> [day |-> day, tod |-> tod],
     amount |-> amt, categoryName |-> cat, paidTo |-> payee]

Pool ==
    { Doc("e1", UserA, 1, 0, 10,  "Food",      "p1"),
      Doc("e2", UserA, 2, 1, 20,  "Food",      "p2"),
      Doc("e3", UserA, 3, 0, -30, "Transport", "p1"),
      Doc("e4", UserA, 1, 1, 7,   "Home",      "p1"),
      Doc("e5", UserB, 3, 1, 8,   "Food",      "p2") }

Stores == {S \in SUBSET Pool : Cardinality(S) <= MaxStore}

(***************************************************************************)
(* get_data, lines 40-51                                                   *)
(***************************************************************************)
\* line 42: collection.find({"user": user_id})
Find(coll, uid) == {d \in coll : d.user = uid}

\* line 47: pd.to_datetime
ToDatetime(date) == date.day * TicksPerDay + date.tod

ParseDates(docs) == {[d EXCEPT !.date = ToDatetime(d.date)] : d \in docs}

KeepAll(rows) == rows

\* line 48: df[df['categoryName'] != 'Home']
DropHome(rows) == {r \in rows : r.categoryName # "Home"}

\* lines 47-49
Normalize(docs) == DropHome(ParseDates(docs))

GetDataKeyByUser(uid) == uid

\* lines 40-41: get_data takes no argument, so every call has the same key
GetDataKey(uid) == <<>>

(***************************************************************************)
(* Table helpers                                                           *)
(***************************************************************************)
RECURSIVE SumAmount(_)
\* Series.sum() of the amount column
SumAmount(T) ==
    IF T = {} THEN 0
    ELSE LET r == CHOOSE x \in T : TRUE
         IN  r.amount + SumAmount(T \ {r})

\* Timestamp.date()
DateOf(ts) == ts \div TicksPerDay

\* pd.Timestamp(date): midnight of that day
Timestamp(date) == date * TicksPerDay

MinTs(T) == CHOOSE t \in {r.date : r \in T} : \A r \in T : t <= r.date
MaxTs(T) == CHOOSE t \in {r.date : r \in T} : \A r \in T : t >= r.date

Categories(T) == {r.categoryName : r \in T}
Payees(T) == {r.paidTo : r \in T}

\* lines 66-70
MinDate(T) == DateOf(MinTs(T))
MaxDate(T) ==
    IF DateOf(MinTs(T)) = DateOf(MaxTs(T)) THEN DateOf(MaxTs(T)) + 1
    ELSE DateOf(MaxTs(T))

(***************************************************************************)
(* Widgets and filtering, lines 64-78                                      *)
(***************************************************************************)
ComparisonWindowDays == 30

\* line 82: a selectbox shows its first option, the category of the table's
\* first row (the model fixes one order of the rows)
FirstCategory(T) == CHOOSE c \in Categories(T) : TRUE

\* lines 64, 65, 72, 82, 83, 170, 172: what the widgets show before any
\* interaction
DefaultSel(T) ==
    [categories      |-> {},
     payees          |-> {},
     date_range      |-> <<MinDate(T), MaxDate(T)>>,
     budget_category |-> FirstCategory(T),
     budget_amount   |-> 0,
     period1         |-> <<DateOf(MinTs(T)),
                           DateOf(MinTs(T) + ComparisonWindowDays * TicksPerDay)>>,
     period2         |-> <<DateOf(MaxTs(T) - ComparisonWindowDays * TicksPerDay),
                           DateOf(MaxTs(T))>>]

\* line 72: the slider offers the pairs of days within [min_date, max_date]
DateRanges(T) ==
    {p \in (MinDate(T)..MaxDate(T)) \X (MinDate(T)..MaxDate(T)) : p[1] <= p[2]}

\* line 83: number_input(min_value=0.0)
BudgetAmounts == {0, 3, 25}

\* lines 170, 172: a date_input range is one date while the user is picking,
\* then a pair of dates
PeriodChoices(T) ==
    {<<a>> : a \in MinDate(T)..MaxDate(T)} \cup DateRanges(T)

FilterWidgets == {"categories"}

Widgets ==
    {"categories", "payees", "date_range", "budget_category", "budget_amount",
     "period1", "period2"}

\* the widget states one interaction with widget w away from cur
SelChanges(T, cur, w) ==
    ( CASE w = "categories" ->
             {[cur EXCEPT !.categories = c] : c \in SUBSET Categories(T)}
        [] w = "payees" ->
             {[cur EXCEPT !.payees = p] : p \in SUBSET Payees(T)}
        [] w = "date_range" ->
             {[cur EXCEPT !.date_range = r] : r \in DateRanges(T)}
        \* line 83: the number_input's label names the category, so another
        \* category is another widget, showing its minimum
        [] w = "budget_category" ->
             {[cur EXCEPT !.budget_category = c, !.budget_amount = 0] :
                 c \in Categories(T)}
        [] w = "budget_amount" ->
             {[cur EXCEPT !.budget_amount = b] : b \in BudgetAmounts}
        [] w = "period1" ->
             {[cur EXCEPT !.period1 = p] : p \in PeriodChoices(T)}
        [] w = "period2" ->
             {[cur EXCEPT !.period2 = p] : p \in PeriodChoices(T)} ) \ {cur}

\* lines 73-78
FilterRows(T, f) ==
    {r \in T :
        /\ r.date >= Timestamp(f.date_range[1])
        /\ r.date <= Timestamp(f.date_range[2])
        /\ (IF f.categories # {} THEN r.categoryName \in f.categories ELSE TRUE)
        /\ (IF f.payees # {} THEN r.paidTo \in f.payees ELSE TRUE)}

(***************************************************************************)
(* Budget tracker, lines 85-89                                             *)
(***************************************************************************)
\* line 86
CategorySpent(T, c) == SumAmount({r \in T : r.categoryName = c})

\* line 87: (category_spent / budget_amount) * 100, as the fraction num/den
BudgetProgress(spent, budget) == <<spent * 100, budget>>

\* line 88: min(budget_progress, 100), the value given to st.progress
ProgressValue(bp) == IF 100 * bp[2] < bp[1] THEN <<100, 1>> ELSE bp

\* line 89: "{budget_progress:.1f}", in tenths of a percent (ties to even)
ProgressText(bp) ==
    LET q   == (bp[1] * 10) \div bp[2]
        rem == (bp[1] * 10) % bp[2]
    IN  IF 2 * rem > bp[2] \/ (2 * rem = bp[2] /\ q % 2 = 1) THEN q + 1 ELSE q

(***************************************************************************)
(* CSV export, lines 92-102                                                *)
(***************************************************************************)
Columns == <<"_id", "user", "date", "amount", "categoryName", "paidTo">>

CsvLine(r) == <<r.id, r.user, r.date, r.amount, r.categoryName, r.paidTo>>

\* line 94: df.to_csv(): a header line, then one line per row
ToCsv(T) == [header |-> Columns, lines |-> {CsvLine(r) : r \in T}]

ConvertDfKeyNoArgs(T) == <<>>

\* lines 92-93: the cache key of convert_df(df) is its argument's content
ConvertDfKey(T) == T

(***************************************************************************)
(* Views, lines 109, 135, 174-180                                          *)
(***************************************************************************)
TotalExpensesMean(T) == IF T = {} THEN 0 ELSE SumAmount(T) \div Cardinality(T)

\* line 109: df_filtered['amount'].sum()
TotalExpenses(T) == SumAmount(T)

\* line 135: groupby('categoryName')['amount'].sum()
CategoryTotals(T) ==
    [c \in Categories(T) |-> SumAmount({r \in T : r.categoryName = c})]

PeriodRowsByTimestamp(T, p) ==
    {r \in T : r.date >= Timestamp(p[1]) /\ r.date <= Timestamp(p[2])}

\* lines 174-175: the rows whose calendar date lies in the period
PeriodRows(T, p) ==
    {r \in T : DateOf(r.date) >= p[1] /\ DateOf(r.date) <= p[2]}

Missing == [present |-> FALSE, value |-> 0]
Value(v) == [present |-> TRUE, value |-> v]

\* lines 177-180: two columns of per-category sums, aligned on the union of
\* their categories
Comparison(T, p1, p2) ==
    LET g1 == CategoryTotals(PeriodRows(T, p1))
        g2 == CategoryTotals(PeriodRows(T, p2))
    IN  [c \in (DOMAIN g1) \cup (DOMAIN g2) |->
            [period1 |-> IF c \in DOMAIN g1 THEN Value(g1[c]) ELSE Missing,
             period2 |-> IF c \in DOMAIN g2 THEN Value(g2[c]) ELSE Missing]]

(***************************************************************************)
(* The page a run produces                                                 *)
(***************************************************************************)
NoTotals == [c \in {} |-> 0]

BlankPage ==
    [status          |-> "none",     \* error / warning / exception shown
     widgets         |-> "none",     \* which sidebar controls were drawn
     df_filtered     |-> {},
     budget_on       |-> FALSE,      \* line 85 taken
     progress        |-> <<0, 1>>,
     text            |-> 0,
     download        |-> FALSE,      \* download button drawn
     csv             |-> [header |-> <<>>, lines |-> {}],
     csv_hit         |-> FALSE,      \* convert_df answered from its cache
     total           |-> 0,
     category_totals |-> NoTotals,
     comparison_on   |-> FALSE,
     comparison      |-> NoTotals]

(***************************************************************************)
(* State machine                                                           *)
(***************************************************************************)
Init ==
    /\ store \in Stores
    /\ data_cache = {}
    /\ csv_cache = {}
    /\ query_log = <<>>
    /\ runs = 0
    /\ pc = [s \in Sessions |-> "idle"]
    /\ request = [s \in Sessions |-> NoRequest]
    /\ user_id = [s \in Sessions |-> NoId]
    /\ queried = [s \in Sessions |-> FALSE]
    /\ df = [s \in Sessions |-> {}]
    /\ sel = [s \in Sessions |-> {}]
    /\ page = [s \in Sessions |-> BlankPage]

\* lines 9-20: the first lines of a run for the request q; st.error followed
\* by st.stop() ends the run with nothing but the error on the page
ValidateUserId(s, q) ==
    LET x == QueryParamsGet(q)
    IN  IF Falsy(x)
        THEN /\ page' = [page EXCEPT ![s] =
                            [BlankPage EXCEPT !.status = "error_no_id"]]
             /\ pc' = [pc EXCEPT ![s] = "halted"]
             /\ user_id' = [user_id EXCEPT ![s] = NoId]
        ELSE IF ~ObjectIdValid(x)
        THEN /\ page' = [page EXCEPT ![s] =
                            [BlankPage EXCEPT !.status = "error_invalid"]]
             /\ pc' = [pc EXCEPT ![s] = "halted"]
             /\ user_id' = [user_id EXCEPT ![s] = NoId]
        ELSE /\ page' = [page EXCEPT ![s] = BlankPage]
             /\ pc' = [pc EXCEPT ![s] = "fetch"]
             /\ user_id' = [user_id EXCEPT ![s] = ObjectId(x)]

\* the script starts over with fresh module globals and a fresh page, and
\* runs up to its first use of the process-wide caches
StartRun(s, q) ==
    /\ runs < MaxRuns
    /\ runs' = runs + 1
    /\ queried' = [queried EXCEPT ![s] = FALSE]
    /\ df' = [df EXCEPT ![s] = {}]
    /\ ValidateUserId(s, q)

\* a browser opens the dashboard URL with query parameters q
NewSession(s, q) ==
    /\ \A t \in Sessions : Earlier(t, s) => pc[t] # "idle"
    /\ StartRun(s, q)
    /\ request' = [request EXCEPT ![s] = q]
    /\ sel' = [sel EXCEPT ![s] = {}]
    /\ UNCHANGED <<store, data_cache, csv_cache, query_log>>

\* the user changes widget w of a drawn page, which re-runs the script
Interact(s, w) ==
    /\ pc[s] \in {"done", "crashed"}
    /\ page[s].widgets = "all"
    /\ \E cur \in sel[s] : \E new \in SelChanges(df[s], cur, w) :
          sel' = [sel EXCEPT ![s] = {new}]
    /\ StartRun(s, request[s])
    /\ UNCHANGED <<store, data_cache, csv_cache, query_log, request>>

\* lines 40-51: df = get_data(), one call at a time under the cache's lock
GetData(s) ==
    /\ pc[s] = "fetch"
    /\ LET key == GetDataKey(user_id[s])
       IN  IF \E e \in data_cache : e.key = key
           THEN /\ df' = [df EXCEPT ![s] =
                            (CHOOSE e \in data_cache : e.key = key).value]
                /\ pc' = [pc EXCEPT ![s] = "render"]
                /\ UNCHANGED <<data_cache, query_log, queried, page>>
           ELSE LET items == Find(store, user_id[s])
                IN  /\ query_log' = Append(query_log,
                                       [user |-> user_id[s], result |-> items])
                    /\ queried' = [queried EXCEPT ![s] = TRUE]
                    /\ IF items = {}
                       THEN \* lines 44-46: st.warning, st.stop(); the call
                            \* does not return, so nothing is cached
                            /\ page' = [page EXCEPT ![s] =
                                   [BlankPage EXCEPT !.status = "warning_empty"]]
                            /\ pc' = [pc EXCEPT ![s] = "halted"]
                            /\ UNCHANGED <<data_cache, df>>
                       ELSE /\ data_cache' = data_cache \cup
                                 {[key |-> key, value |-> Normalize(items)]}
                            /\ df' = [df EXCEPT ![s] = Normalize(items)]
                            /\ pc' = [pc EXCEPT ![s] = "render"]
                            /\ UNCHANGED page
    /\ UNCHANGED <<store, csv_cache, runs, request, user_id, sel>>

\* lines 57-202
Render(s) ==
    /\ pc[s] = "render"
    /\ IF df[s] = {}
       THEN \* lines 64-66: the two multiselects are drawn without options,
            \* then df['date'].min().date() raises on the missing minimum
            /\ page' = [page EXCEPT ![s] =
                   [BlankPage EXCEPT !.status = "exception",
                                     !.widgets = "multiselects"]]
            /\ pc' = [pc EXCEPT ![s] = "crashed"]
            /\ UNCHANGED <<csv_cache, sel>>
       ELSE LET cur == IF sel[s] = {} THEN DefaultSel(df[s])
                       ELSE CHOOSE x \in sel[s] : TRUE
                df_filtered == FilterRows(df[s], cur)
                bp == BudgetProgress(
                          CategorySpent(df_filtered, cur.budget_category),
                          cur.budget_amount)
                key == ConvertDfKey(df_filtered)
                hit == \E e \in csv_cache : e.key = key
                csv == IF hit THEN (CHOOSE e \in csv_cache : e.key = key).value
                       ELSE ToCsv(df_filtered)
                whole == Len(cur.period1) = 2 /\ Len(cur.period2) = 2
            IN  /\ sel' = [sel EXCEPT ![s] = {cur}]
                /\ csv_cache' = IF hit THEN csv_cache
                                ELSE csv_cache \cup {[key |-> key, value |-> csv]}
                /\ page' = [page EXCEPT ![s] =
                       [status          |-> IF whole THEN "rendered" ELSE "exception",
                        widgets         |-> "all",
                        df_filtered     |-> df_filtered,
                        budget_on       |-> cur.budget_amount > 0,
                        progress        |-> IF cur.budget_amount > 0
                                            THEN ProgressValue(bp) ELSE <<0, 1>>,
                        text            |-> IF cur.budget_amount > 0
                                            THEN ProgressText(bp) ELSE 0,
                        download        |-> TRUE,
                        csv             |-> csv,
                        csv_hit         |-> hit,
                        total           |-> TotalExpenses(df_filtered),
                        category_totals |-> CategoryTotals(df_filtered),
                        comparison_on   |-> whole,
                        \* lines 174-175: period[1] of a one-date range raises
                        comparison      |-> IF whole
                                            THEN Comparison(df[s], cur.period1,
                                                            cur.period2)
                                            ELSE NoTotals]]
                /\ pc' = [pc EXCEPT ![s] = IF whole THEN "done" ELSE "crashed"]
    /\ UNCHANGED <<store, data_cache, query_log, runs, request, user_id,
                   queried, df>>

\* the upstream application records an expense
StoreInsert(d) ==
    /\ d \notin store
    /\ Cardinality(store) < MaxStore
    /\ store' = store \cup {d}
    /\ UNCHANGED <<data_cache, csv_cache, query_log, runs, pc, request,
                   user_id, queried, df, sel, page>>

Next ==
    \/ \E s \in Sessions, q \in Requests : NewSession(s, q)
    \/ \E s \in Sessions, w \in FilterWidgets : Interact(s, w)
    \/ \E s \in Sessions : GetData(s)
    \/ \E s \in Sessions : Render(s)
    \/ \E d \in Pool : StoreInsert(d)

Spec == Init /\ [][Next]_vars

\* one session, every widget, a store that does not change meanwhile
NextViews ==
    \/ \E q \in Requests : NewSession("s1", q)
    \/ \E w \in Widgets : Interact("s1", w)
    \/ GetData("s1")
    \/ Render("s1")

SpecViews == Init /\ [][NextViews]_vars

(***************************************************************************)
(* Properties                                                              *)
(***************************************************************************)
Past(s) == pc[s] \in {"render", "done", "crashed"}   \* get_data has returned

Current(s) == CHOOSE f \in sel[s] : TRUE   \* the selection a drawn page used

WellFormedId(q) ==
    /\ q.present
    /\ Len(q.value) = 24
    /\ \A i \in 1..Len(q.value) : q.value[i] \in {"a", "b", "A", "B"}

\* C1: a run whose request has no user_id, or a user_id that is not a
\* well-formed identifier, shows an error and halts: it issues no query and
\* produces no filter control, no view and no CSV export.
C1_BadRequestHalts ==
    \A s \in Sessions :
        (pc[s] # "idle" /\ ~WellFormedId(request[s])) =>
            /\ pc[s] = "halted"
            /\ page[s].status \in {"error_no_id", "error_invalid"}
            /\ ~queried[s]
            /\ user_id[s] = NoId
            /\ df[s] = {}
            /\ page[s] = [BlankPage EXCEPT !.status = page[s].status]

C1_Witness ==
    \E s, t \in Sessions :
        /\ pc[s] = "halted" /\ ~request[s].present
        /\ page[s].status = "error_invalid"
        /\ pc[t] = "halted" /\ request[t].present
        /\ page[t].status = "error_no_id"
        /\ data_cache # {}

\* C2: under every interleaving of sessions and re-runs, the expense table a
\* run uses holds only documents whose user field is the identifier of that
\* run's own request.
C2_OwnDocumentsOnly ==
    \A s \in Sessions :
        Past(s) => \A r \in df[s] : r.user = user_id[s]

\* C3: a run that proceeds past the data fetch to the filter controls and
\* views works on a normalized table of at least one record.
C3_NeverEmptyDashboard ==
    \A s \in Sessions :
        (Past(s) \/ page[s].widgets # "none") => df[s] # {}

\* C4: the filtered view is exactly the records whose calendar date lies in
\* [start, end], both days included whatever the time of day, whose category
\* is selected (or no category is), and whose payee is selected (or none is).
C4_FilterIsInclusive ==
    \A s \in Sessions :
        page[s].widgets = "all" =>
            page[s].df_filtered =
                {r \in df[s] :
                    /\ Current(s).date_range[1] <= DateOf(r.date)
                    /\ DateOf(r.date) <= Current(s).date_range[2]
                    /\ (r.categoryName \in Current(s).categories
                            \/ Current(s).categories = {})
                    /\ (r.paidTo \in Current(s).payees
                            \/ Current(s).payees = {})}

\* C5: no record of category 'Home' is ever in the expense table, the
\* filtered view, the CSV export, the category totals or the period
\* comparison.
C5_NoHomeAnywhere ==
    /\ \A e \in data_cache : \A r \in e.value : r.categoryName # "Home"
    /\ \A s \in Sessions :
        /\ \A r \in df[s] : r.categoryName # "Home"
        /\ \A r \in page[s].df_filtered : r.categoryName # "Home"
        /\ \A l \in page[s].csv.lines : l[5] # "Home"
        /\ "Home" \notin DOMAIN page[s].category_totals
        /\ "Home" \notin DOMAIN page[s].comparison

C5_Witness ==
    \E s \in Sessions :
        /\ page[s].status = "rendered"
        /\ page[s].df_filtered # {}
        /\ Current(s).categories # {}
        /\ \E i \in 1..Len(query_log) :
              /\ query_log[i].user = user_id[s]
              /\ \E d \in query_log[i].result : d.categoryName = "Home"

RECURSIVE SumOver(_, _)
SumOver(f, D) ==
    IF D = {} THEN 0
    ELSE LET c == CHOOSE x \in D : TRUE
         IN  f[c] + SumOver(f, D \ {c})

\* C7: the per-category totals of the breakdown view add up to the
\* 'Total Expenses' metric of the same filtered table.
C7_TotalsAddUp ==
    \A s \in Sessions :
        page[s].widgets = "all" =>
            SumOver(page[s].category_totals, DOMAIN page[s].category_totals)
                = page[s].total

C7_Witness ==
    \E s \in Sessions :
        /\ page[s].widgets = "all"
        /\ Cardinality(DOMAIN page[s].category_totals) >= 2
        /\ page[s].total < 0

InPeriod(T, c, p) ==
    {r \in T : r.categoryName = c /\ p[1] <= DateOf(r.date)
                                  /\ DateOf(r.date) <= p[2]}

\* C8: for two chosen intervals the period comparison gives, per interval
\* and category, the sum of amount over the records of the unfiltered table
\* in that category dated within the interval (inclusive), whatever the
\* filter selection; a category with records in one interval only has a
\* missing value for the other.
C8_ComparisonIndependent ==
    \A s \in Sessions :
        page[s].comparison_on =>
            /\ DOMAIN page[s].comparison =
                  {c \in Categories(df[s]) :
                      InPeriod(df[s], c, Current(s).period1)
                          \cup InPeriod(df[s], c, Current(s).period2) # {}}
            /\ \A c \in DOMAIN page[s].comparison :
                  LET in1 == InPeriod(df[s], c, Current(s).period1)
                      in2 == InPeriod(df[s], c, Current(s).period2)
                  IN  /\ page[s].comparison[c].period1 =
                            (IF in1 = {} THEN [present |-> FALSE, value |-> 0]
                             ELSE [present |-> TRUE, value |-> SumAmount(in1)])
                      /\ page[s].comparison[c].period2 =
                            (IF in2 = {} THEN [present |-> FALSE, value |-> 0]
                             ELSE [present |-> TRUE, value |-> SumAmount(in2)])

C8_Witness ==
    \E s \in Sessions :
        /\ page[s].comparison_on
        /\ Current(s).categories # {}
        /\ page[s].df_filtered # df[s]
        /\ \E c \in DOMAIN page[s].comparison :
              /\ page[s].comparison[c].period1.present
              /\ ~page[s].comparison[c].period2.present

\* C9: when the budget amount is greater than 0, the value handed to the
\* progress indicator lies between 0% and 100%: the ratio of the chosen
\* category's spend to the budget when that is at most 100%, else 100%;
\* the text reports the uncapped ratio.
C9_ProgressIsValid ==
    \A s \in Sessions :
        page[s].budget_on =>
            LET spent  == SumAmount({r \in page[s].df_filtered :
                              r.categoryName = Current(s).budget_category})
                budget == Current(s).budget_amount
                num    == page[s].progress[1]
                den    == page[s].progress[2]
            IN  /\ 0 <= num /\ num <= 100 * den
                /\ IF spent <= budget THEN num * budget = spent * 100 * den
                                      ELSE num = 100 * den
                /\ 2 * budget * page[s].text >= 2 * spent * 1000 - budget
                /\ 2 * budget * page[s].text <= 2 * spent * 1000 + budget

\* C10: once a data fetch has succeeded, no later run of any session issues
\* another query, and every later run gets the same expense table; a fetch
\* that ends in the empty-result halt leaves no cached table.
C10_FetchOnce ==
    [][ /\ data_cache # {} =>
              /\ data_cache' = data_cache
              /\ query_log' = query_log
              /\ \A s \in Sessions : queried'[s] => queried[s]
        /\ \A s \in Sessions :
              (pc[s] = "fetch" /\ pc'[s] = "render") =>
                  /\ \A e \in data_cache' : df'[s] = e.value
                  /\ data_cache' # {}
        /\ \A s \in Sessions :
              (~queried[s] /\ queried'[s] /\ pc'[s] = "halted") =>
                  /\ data_cache' = {}
                  /\ page'[s].status = "warning_empty" ]_vars

C10_Witness ==
    \E s \in Sessions :
        /\ pc[s] = "done"
        /\ ~queried[s]
        /\ Len(query_log) >= 2
        /\ query_log[1].result = {}
        /\ query_log[Len(query_log)].user # user_id[s]
        /\ Find(store, user_id[s]) # {}

====
